---- MODULE Spec2Model ----
(***************************************************************************)
(* Model of the layered texture atlas of iced_graphics (Atlas, Layer,      *)
(* Allocation, Entry) together with the wgpu backend's texture growth.     *)
(* The atlas is single-threaded: every public call (entry_for, remove) is  *)
(* one atomic step.                                                        *)
(***************************************************************************)
EXTENDS Integers, Sequences, FiniteSets, TLC

(* ---------------- program constant ---------------- *)
SIZE == 2048

(* ---------------- bounds of the model ---------------- *)
\* MaxLayers caps layers.len(), MaxLive the entries the caller holds at once.
MaxLayers == 3
MaxLive == 2

\* The (width, height) pairs requested: the unsupported zero extents, a
\* sub-layer square, a sub-layer strip as wide as a layer, exactly one layer,
\* and oversized images of 2 x 1, 1 x 2, 2 x 2 and 2 x 0 blocks (3000 is
\* SIZE + 952).
Requests ==
    {<<0, 1050>>, <<1050, 0>>, <<1050, 1050>>, <<SIZE, 1050>>, <<SIZE, SIZE>>,
     <<3000, 1050>>, <<SIZE, 3000>>, <<3000, 3000>>, <<3000, 0>>}

VARIABLES layers, texture_layers, live, last, call

vars == <<layers, texture_layers, live, last, call>>

Min(a, b) == IF a < b THEN a ELSE b

(* ---------------- Region Allocator (per layer) ---------------- *)
\* A Region is a rectangle [x, y, w, h]; NoRegion fills the slot of values
\* that carry no region.
NoRegion == [x |-> 0, y |-> 0, w |-> 0, h |-> 0]

Region_position(region) == <<region.x, region.y>>

Region_size(region) == <<region.w, region.h>>

Overlaps(a, b) ==
    /\ a.x < b.x + b.w
    /\ b.x < a.x + a.w
    /\ a.y < b.y + b.h
    /\ b.y < a.y + a.h

\* Allocator::new(size): nothing carved out yet.
Allocator_new == [regions |-> {}]

Allocator_is_empty(allocator) == allocator.regions = {}

\* Positions at which a w x h rectangle can be carved out of the free space:
\* corners left over by the rectangles carved so far.
Allocator_free(allocator, w, h) ==
    LET xs == {0} \cup {r.x + r.w : r \in allocator.regions}
        ys == {0} \cup {r.y + r.h : r \in allocator.regions}
    IN  {p \in [x : xs, y : ys, w : {w}, h : {h}] :
            /\ p.x + w <= SIZE
            /\ p.y + h <= SIZE
            /\ \A r \in allocator.regions : ~Overlaps(p, r)}

\* Allocator::allocate(width, height) -> Option<Region>: fails on a zero
\* dimension and when no free rectangle of sufficient size exists; otherwise
\* carves the topmost, then leftmost, free position.
Allocator_allocate(allocator, width, height) ==
    LET free == Allocator_free(allocator, width, height)
    IN  IF width = 0 \/ height = 0 \/ free = {}
        THEN [ok |-> FALSE, region |-> NoRegion, allocator |-> allocator]
        ELSE LET region == CHOOSE p \in free : \A q \in free :
                               p.y < q.y \/ (p.y = q.y /\ p.x <= q.x)
             IN  [ok |-> TRUE, region |-> region,
                  allocator |-> [regions |-> allocator.regions \cup {region}]]

\* Allocator::deallocate(&region)
Allocator_deallocate(allocator, region) ==
    [regions |-> allocator.regions \ {region}]

(* ---------------- Layer ---------------- *)
LayerEmpty == [tag |-> "Empty", allocator |-> Allocator_new]
LayerFull == [tag |-> "Full", allocator |-> Allocator_new]
LayerBusy(allocator) == [tag |-> "Busy", allocator |-> allocator]

Layer_is_empty(layer) == layer.tag = "Empty"

(* ---------------- Allocation ---------------- *)
AllocationPartial(layer, region) ==
    [kind |-> "Partial", layer |-> layer, region |-> region]
AllocationFull(layer) == [kind |-> "Full", layer |-> layer, region |-> NoRegion]
NoAllocation == [kind |-> "None", layer |-> 0, region |-> NoRegion]

Allocation_position(allocation) ==
    IF allocation.kind = "Partial" THEN Region_position(allocation.region)
    ELSE <<0, 0>>

\* Variant: the Full arm returns the position pair instead of the size pair.
Allocation_size_FullZero(allocation) ==
    IF allocation.kind = "Partial" THEN Region_size(allocation.region)
    ELSE <<0, 0>>

Allocation_size(allocation) ==
    IF allocation.kind = "Partial" THEN Region_size(allocation.region)
    ELSE <<SIZE, SIZE>>

Allocation_layer(allocation) == allocation.layer

(* ---------------- Entry ---------------- *)
Fragment(position, allocation) ==
    [position |-> position, allocation |-> allocation]

EntryContiguous(allocation) ==
    [kind |-> "Contiguous", allocation |-> allocation, size |-> <<0, 0>>,
     fragments |-> <<>>]
EntryFragmented(size, fragments) ==
    [kind |-> "Fragmented", allocation |-> NoAllocation, size |-> size,
     fragments |-> fragments]
NoEntry ==
    [kind |-> "None", allocation |-> NoAllocation, size |-> <<0, 0>>,
     fragments |-> <<>>]

Entry_size(entry) ==
    IF entry.kind = "Contiguous" THEN Allocation_size(entry.allocation)
    ELSE entry.size

\* The allocations an entry consists of.
EntryAllocations(entry) ==
    IF entry.kind = "Contiguous" THEN {entry.allocation}
    ELSE {entry.fragments[k].allocation : k \in 1..Len(entry.fragments)}

\* The layers an entry holds as Full allocations.
FullLayers(entry) ==
    {a.layer : a \in {b \in EntryAllocations(entry) : b.kind = "Full"}}

\* Option<Entry> together with the layer sequence the call leaves behind.
Some(ls, entry) == [layers |-> ls, ok |-> TRUE, entry |-> entry]
None(ls) == [layers |-> ls, ok |-> FALSE, entry |-> NoEntry]

(* ---------------- WgpuBackend ---------------- *)
\* WgpuBackend::new creates the texture with depth_or_array_layers 1.
WgpuBackend_new == 1

\* Variant: the new texture gets only the layers that are copied.
WgpuBackend_grow_CopiedOnly(texture, ls, amount) ==
    IF amount = 0 THEN texture ELSE Len(ls) - amount

\* WgpuBackend::grow(layers, amount): the texture's layer count afterwards.
WgpuBackend_grow(texture, ls, amount) ==
    IF amount = 0 THEN texture ELSE Len(ls)

\* Variant: the first `amount` layers are copied, not the first
\* layers.len() - amount.
WgpuBackend_grow_copies_TakeAmount(ls, amount) ==
    IF amount = 0 THEN {}
    ELSE {i \in 0..(amount - 1) : i < Len(ls) /\ ~Layer_is_empty(ls[i + 1])}

\* WgpuBackend::grow(layers, amount): the layer indices it copies from the
\* old texture to the same index of the new one.
WgpuBackend_grow_copies(ls, amount) ==
    IF amount = 0 THEN {}
    ELSE LET amount_to_copy == Len(ls) - amount
         IN  {i \in 0..(amount_to_copy - 1) : ~Layer_is_empty(ls[i + 1])}

(* ---------------- Atlas::allocate ---------------- *)
\* Variant: a full-size request never reuses an Empty layer.
AllocateFull_AlwaysPush(ls) ==
    LET pushed == Append(ls, LayerFull)
    IN  Some(pushed, EntryContiguous(AllocationFull(Len(pushed) - 1)))

\* Variant: a full-size request reuses the last Empty layer, not the first.
AllocateFull_LastEmpty(ls) ==
    LET empty_layers == {i \in 0..(Len(ls) - 1) : Layer_is_empty(ls[i + 1])}
    IN  IF empty_layers # {}
        THEN LET i == CHOOSE i \in empty_layers : \A j \in empty_layers : i >= j
             IN  Some([ls EXCEPT ![i + 1] = LayerFull],
                      EntryContiguous(AllocationFull(i)))
        ELSE LET pushed == Append(ls, LayerFull)
             IN  Some(pushed, EntryContiguous(AllocationFull(Len(pushed) - 1)))

\* Variant: a full-size request takes the first layer that is not Full,
\* Busy layers included.
AllocateFull_AnyNonFull(ls) ==
    LET open_layers == {i \in 0..(Len(ls) - 1) : ls[i + 1].tag # "Full"}
    IN  IF open_layers # {}
        THEN LET i == CHOOSE i \in open_layers : \A j \in open_layers : i <= j
             IN  Some([ls EXCEPT ![i + 1] = LayerFull],
                      EntryContiguous(AllocationFull(i)))
        ELSE LET pushed == Append(ls, LayerFull)
             IN  Some(pushed, EntryContiguous(AllocationFull(Len(pushed) - 1)))

\* Exact full-layer fit: the first Empty layer becomes Full, else a Full
\* layer is pushed.  Layer indices are 0-based as in the source; the layer
\* with index i is ls[i + 1].
AllocateFull(ls) ==
    LET empty_layers == {i \in 0..(Len(ls) - 1) : Layer_is_empty(ls[i + 1])}
    IN  IF empty_layers # {}
        THEN LET i == CHOOSE i \in empty_layers : \A j \in empty_layers : i <= j
             IN  Some([ls EXCEPT ![i + 1] = LayerFull],
                      EntryContiguous(AllocationFull(i)))
        ELSE LET pushed == Append(ls, LayerFull)
             IN  Some(pushed, EntryContiguous(AllocationFull(Len(pushed) - 1)))

\* Variant: no new layer is created when the existing ones are exhausted.
AllocateNewLayer_Never(ls, width, height) == None(ls)

\* Variant: the index of the new layer is taken to be the new length.
AllocateNewLayer_IndexIsLen(ls, width, height) ==
    LET a == Allocator_allocate(Allocator_new, width, height)
    IN  IF a.ok
        THEN LET pushed == Append(ls, LayerBusy(a.allocator))
             IN  Some(pushed, EntryContiguous(
                          AllocationPartial(Len(pushed), a.region)))
        ELSE None(ls)

\* "Create new layer with atlas allocator"
AllocateNewLayer(ls, width, height) ==
    LET a == Allocator_allocate(Allocator_new, width, height)
    IN  IF a.ok
        THEN LET pushed == Append(ls, LayerBusy(a.allocator))
             IN  Some(pushed, EntryContiguous(
                          AllocationPartial(Len(pushed) - 1, a.region)))
        ELSE None(ls)

\* Variant: an Empty layer is given its allocator before the allocation is
\* known to succeed.
TryLayer_EagerBusy(ls, i, width, height) ==
    LET layer == ls[i + 1]
        a == Allocator_allocate(
                 IF layer.tag = "Busy" THEN layer.allocator ELSE Allocator_new,
                 width, height)
    IN  IF layer.tag \in {"Empty", "Busy"} /\ a.ok
        THEN Some([ls EXCEPT ![i + 1] = LayerBusy(a.allocator)],
                  EntryContiguous(AllocationPartial(i, a.region)))
        ELSE IF layer.tag = "Empty"
        THEN None([ls EXCEPT ![i + 1] = LayerBusy(a.allocator)])
        ELSE None(ls)

\* Variant: only Empty layers are tried, Busy layers are passed over.
TryLayer_EmptyOnly(ls, i, width, height) ==
    LET layer == ls[i + 1]
        a == Allocator_allocate(Allocator_new, width, height)
    IN  IF layer.tag = "Empty" /\ a.ok
        THEN Some([ls EXCEPT ![i + 1] = LayerBusy(a.allocator)],
                  EntryContiguous(AllocationPartial(i, a.region)))
        ELSE None(ls)

\* One iteration of "Try allocating on an existing layer" for the layer with
\* index i: the layer sequence and entry if the layer takes the request.
TryLayer(ls, i, width, height) ==
    LET layer == ls[i + 1]
        a == Allocator_allocate(
                 IF layer.tag = "Busy" THEN layer.allocator ELSE Allocator_new,
                 width, height)
    IN  IF layer.tag \in {"Empty", "Busy"} /\ a.ok
        THEN Some([ls EXCEPT ![i + 1] = LayerBusy(a.allocator)],
                  EntryContiguous(AllocationPartial(i, a.region)))
        ELSE None(ls)

RECURSIVE AllocatePartial(_, _, _, _)
\* The loop over the existing layers from index i on, then the new layer.
AllocatePartial(ls, i, width, height) ==
    IF i >= Len(ls)
    THEN AllocateNewLayer(ls, width, height)
    ELSE LET t == TryLayer(ls, i, width, height)
         IN  IF t.ok THEN t ELSE AllocatePartial(t.layers, i + 1, width, height)

\* Variant: the block extent ignores the cursor.
BlockExtent_NoCursor(total, cursor) == Min(total, SIZE)

\* Width (height) of the block that starts at cursor x (y).
BlockExtent(total, cursor) == Min(total - cursor, SIZE)

RECURSIVE Atlas_allocate(_, _, _)
RECURSIVE AllocateCols(_, _, _, _, _, _)
RECURSIVE AllocateRows(_, _, _, _, _)

\* Inner loop "while x < width" of the oversized path, for the row of blocks
\* at y with block height `height`.  A failed block returns at once (the `?`)
\* with whatever the earlier blocks did to the layers.
AllocateCols(ls, total_width, height, x, y, fragments) ==
    IF ~(x < total_width)
    THEN [layers |-> ls, ok |-> TRUE, fragments |-> fragments]
    ELSE LET width == BlockExtent(total_width, x)
             r == Atlas_allocate(ls, width, height)
         IN  IF ~r.ok
             THEN [layers |-> r.layers, ok |-> FALSE, fragments |-> fragments]
             ELSE AllocateCols(r.layers, total_width, height, x + width, y,
                      IF r.entry.kind = "Contiguous"
                      THEN Append(fragments,
                                  Fragment(<<x, y>>, r.entry.allocation))
                      ELSE fragments)

\* Outer loop "while y < height" of the oversized path.
AllocateRows(ls, total_width, total_height, y, fragments) ==
    IF ~(y < total_height)
    THEN [layers |-> ls, ok |-> TRUE, fragments |-> fragments]
    ELSE LET height == BlockExtent(total_height, y)
             row == AllocateCols(ls, total_width, height, 0, y, fragments)
         IN  IF ~row.ok
             THEN row
             ELSE AllocateRows(row.layers, total_width, total_height,
                               y + height, row.fragments)

\* Atlas::allocate(width, height) -> Option<Entry>
Atlas_allocate(ls, width, height) ==
    IF width = SIZE /\ height = SIZE
    THEN AllocateFull(ls)
    ELSE IF width > SIZE \/ height > SIZE
    THEN LET rows == AllocateRows(ls, width, height, 0, <<>>)
         IN  IF rows.ok
             THEN Some(rows.layers,
                       EntryFragmented(<<width, height>>, rows.fragments))
             ELSE None(rows.layers)
    ELSE AllocatePartial(ls, 0, width, height)

(* ---------------- Atlas::deallocate / Atlas::remove ---------------- *)
\* Variant: freeing the Full allocation of the last layer pops that layer.
Atlas_deallocate_Pop(ls, allocation) ==
    LET layer == ls[allocation.layer + 1]
    IN  IF allocation.kind = "Full"
        THEN IF allocation.layer + 1 = Len(ls) /\ Len(ls) > 1
             THEN SubSeq(ls, 1, Len(ls) - 1)
             ELSE [ls EXCEPT ![allocation.layer + 1] = LayerEmpty]
        ELSE IF layer.tag = "Busy"
        THEN LET allocator ==
                     Allocator_deallocate(layer.allocator, allocation.region)
             IN  IF Allocator_is_empty(allocator)
                 THEN [ls EXCEPT ![allocation.layer + 1] = LayerEmpty]
                 ELSE [ls EXCEPT ![allocation.layer + 1] = LayerBusy(allocator)]
        ELSE ls

\* Variant: a Busy layer whose allocator became empty is not demoted.
Atlas_deallocate_NoDemote(ls, allocation) ==
    LET layer == ls[allocation.layer + 1]
    IN  IF allocation.kind = "Full"
        THEN [ls EXCEPT ![allocation.layer + 1] = LayerEmpty]
        ELSE IF layer.tag = "Busy"
        THEN [ls EXCEPT ![allocation.layer + 1] = LayerBusy(
                 Allocator_deallocate(layer.allocator, allocation.region))]
        ELSE ls

\* Variant: a Partial allocation whose layer is not Busy empties the layer.
Atlas_deallocate_AlwaysEmpty(ls, allocation) ==
    LET layer == ls[allocation.layer + 1]
    IN  IF allocation.kind = "Full"
        THEN [ls EXCEPT ![allocation.layer + 1] = LayerEmpty]
        ELSE IF layer.tag = "Busy"
        THEN LET allocator ==
                     Allocator_deallocate(layer.allocator, allocation.region)
             IN  IF Allocator_is_empty(allocator)
                 THEN [ls EXCEPT ![allocation.layer + 1] = LayerEmpty]
                 ELSE [ls EXCEPT ![allocation.layer + 1] = LayerBusy(allocator)]
        ELSE [ls EXCEPT ![allocation.layer + 1] = LayerEmpty]

\* Atlas::deallocate(&allocation)
Atlas_deallocate(ls, allocation) ==
    LET layer == ls[allocation.layer + 1]
    IN  IF allocation.kind = "Full"
        THEN [ls EXCEPT ![allocation.layer + 1] = LayerEmpty]
        ELSE IF layer.tag = "Busy"
        THEN LET allocator ==
                     Allocator_deallocate(layer.allocator, allocation.region)
             IN  IF Allocator_is_empty(allocator)
                 THEN [ls EXCEPT ![allocation.layer + 1] = LayerEmpty]
                 ELSE [ls EXCEPT ![allocation.layer + 1] = LayerBusy(allocator)]
        ELSE ls

RECURSIVE DeallocateFragments(_, _)
\* "for fragment in fragments { self.deallocate(&fragment.allocation) }"
DeallocateFragments(ls, fragments) ==
    IF fragments = <<>>
    THEN ls
    ELSE DeallocateFragments(Atlas_deallocate(ls, Head(fragments).allocation),
                             Tail(fragments))

\* Atlas::remove(&entry)
Atlas_remove(ls, entry) ==
    IF entry.kind = "Contiguous"
    THEN Atlas_deallocate(ls, entry.allocation)
    ELSE DeallocateFragments(ls, entry.fragments)

(* ---------------- Atlas::entry_for ---------------- *)
\* Variant: the callback is skipped when no layer was added.
GrowCalls_OnlyOnGrowth(ok, ls, new_layers) ==
    IF ok /\ new_layers > 0
    THEN <<[layers |-> ls, amount |-> new_layers]>> ELSE <<>>

\* The calls of the grow callback one entry_for makes: its arguments.
GrowCalls(ok, ls, new_layers) ==
    IF ok THEN <<[layers |-> ls, amount |-> new_layers]>> ELSE <<>>

\* Atlas::entry_for with the callback forwarding to WgpuBackend::grow:
\* the layers, the texture and the Option<Entry> it leaves, and the callback
\* calls it made.
Atlas_entry_for(ls, texture, width, height) ==
    LET current_size == Len(ls)
        r == Atlas_allocate(ls, width, height)
        new_layers == Len(r.layers) - current_size
        calls == GrowCalls(r.ok, r.layers, new_layers)
    IN  [layers |-> r.layers, ok |-> r.ok, entry |-> r.entry,
         calls |-> calls,
         texture |-> IF calls = <<>> THEN texture
                     ELSE WgpuBackend_grow(texture, calls[1].layers,
                                           calls[1].amount)]

\* Atlas::layer_count
Atlas_layer_count(ls) == Len(ls)

(* ---------------- WgpuBackend::upload ---------------- *)
\* wgpu::COPY_BYTES_PER_ROW_ALIGNMENT, in bytes.
COPY_BYTES_PER_ROW_ALIGNMENT == 256

\* Every byte quantity of upload is a multiple of the 4 bytes of a pixel:
\* offsets, row pitches and the alignment are kept in pixels, so that a
\* u32 byte count wraps at 2^32 / 4 pixels.
U32Pixels == 2^30

WrapU32(pixels) == pixels % U32Pixels

\* "let padding = (align - (4 * image_width) % align) % align", in pixels.
Padding(image_width) ==
    LET align == COPY_BYTES_PER_ROW_ALIGNMENT \div 4
    IN  (align - (WrapU32(image_width) % align)) % align

\* "let padded_width = (4 * image_width + padding) as usize", in pixels.
PaddedWidth(image_width) ==
    WrapU32(WrapU32(image_width) + Padding(image_width))

\* WgpuBackend::upload_allocation: the copy_buffer_to_texture command it
\* encodes.  The texel (cx, cy) of the extent is read at
\* offset + cy * bytes_per_row + cx and written to (x + cx, y + cy) of layer z.
WgpuBackend_upload_allocation(image_width, image_height, padding, offset,
                              allocation) ==
    [offset |-> offset,
     bytes_per_row |-> WrapU32(WrapU32(image_width) + padding),
     rows_per_image |-> image_height,
     x |-> Allocation_position(allocation)[1],
     y |-> Allocation_position(allocation)[2],
     z |-> Allocation_layer(allocation),
     width |-> Allocation_size(allocation)[1],
     height |-> Allocation_size(allocation)[2]]

\* "let offset = (y * padded_width as u32 + 4 * x) as usize": u32
\* arithmetic, which wraps in a build without overflow checks.
FragmentOffset(x, y, padded_width) == WrapU32(y * WrapU32(padded_width) + x)

\* The same expression overflows u32: a build with overflow checks panics.
FragmentOffsetOverflows(x, y, padded_width) ==
    y * WrapU32(padded_width) + x >= U32Pixels

\* "for fragment in fragments { ... }": the number of fragments the loop
\* gets through, all of them unless an offset computation panics.
UploadedFragments(fragments, padded_width, overflow_checks) ==
    LET overflowing ==
            {k \in 1..Len(fragments) :
                 FragmentOffsetOverflows(fragments[k].position[1],
                                         fragments[k].position[2],
                                         padded_width)}
    IN  IF overflow_checks /\ overflowing # {}
        THEN (CHOOSE k \in overflowing : \A j \in overflowing : k <= j) - 1
        ELSE Len(fragments)

\* WgpuBackend::upload(image_width, image_height, data, entry): the copy
\* commands it encodes, in a build with or without overflow checks.
WgpuBackend_upload(image_width, image_height, entry, overflow_checks) ==
    LET padding == Padding(image_width)
        padded_width == PaddedWidth(image_width)
    IN  IF entry.kind = "Contiguous"
        THEN [panicked |-> FALSE,
              copies |-> <<WgpuBackend_upload_allocation(
                               image_width, image_height, padding, 0,
                               entry.allocation)>>]
        ELSE LET uploaded == UploadedFragments(entry.fragments, padded_width,
                                               overflow_checks)
             IN  [panicked |-> uploaded < Len(entry.fragments),
                  copies |->
                      [k \in 1..uploaded |->
                          WgpuBackend_upload_allocation(
                              image_width, image_height, padding,
                              FragmentOffset(entry.fragments[k].position[1],
                                             entry.fragments[k].position[2],
                                             padded_width),
                              entry.fragments[k].allocation)]]

(* ---------------- the state machine ---------------- *)
\* layers          Atlas.layers
\* texture_layers  depth_or_array_layers of WgpuBackend.texture
\* live            the entries the caller holds (returned, not yet removed)
\* last            the most recent call: its arguments, the layer tags it
\*                 found, what it returned and the grow calls it made
\* call            the oversized Atlas::allocate in progress when the call is
\*                 followed loop iteration by loop iteration; idle otherwise
\* last.prev links a call to the call before it: for a remove, the
\* entry_for that has just returned the removed entry (with the tags that
\* entry_for found); for an entry_for, the remove that has just freed Full
\* allocations (with the layers they were in).
NoPrev == [op |-> "none", full |-> {}, pre |-> <<>>]

NoCall ==
    [op |-> "none", width |-> 0, height |-> 0, ok |-> FALSE,
     entry |-> NoEntry, pre |-> <<>>, calls |-> <<>>, prev |-> NoPrev]

\* No allocate is in progress.
NoFrame ==
    [pc |-> "idle", width |-> 0, height |-> 0, x |-> 0, y |-> 0,
     block_height |-> 0, fragments |-> <<>>, ok |-> TRUE, current_size |-> 0]

\* Atlas::new(WgpuBackend::new(device))
Init ==
    /\ layers = <<LayerEmpty>>
    /\ texture_layers = WgpuBackend_new
    /\ live = {}
    /\ last = NoCall
    /\ call = NoFrame

\* The Empty/Busy/Full classification of every layer.
Tags(ls) == [i \in 1..Len(ls) |-> ls[i].tag]

\* A call entry_for(width, height, |b, l, a| b.grow(l, a, ..)).
EntryFor(width, height) ==
    \E r \in {Atlas_entry_for(layers, texture_layers, width, height)} :
        /\ Len(r.layers) <= MaxLayers
        /\ r.ok => Cardinality(live) < MaxLive
        /\ layers' = r.layers
        /\ texture_layers' = r.texture
        /\ live' = IF r.ok THEN live \cup {r.entry} ELSE live
        /\ last' = [op |-> "entry_for", width |-> width, height |-> height,
                    ok |-> r.ok, entry |-> r.entry, pre |-> Tags(layers),
                    calls |-> r.calls,
                    prev |-> IF last.op = "remove"
                                /\ FullLayers(last.entry) # {}
                             THEN [op |-> "remove",
                                   full |-> FullLayers(last.entry),
                                   pre |-> <<>>]
                             ELSE NoPrev]
        /\ UNCHANGED call

\* A call remove(&entry) of an entry the caller holds.
Remove(entry) ==
    /\ layers' = Atlas_remove(layers, entry)
    /\ live' = live \ {entry}
    /\ last' = [op |-> "remove", width |-> 0, height |-> 0, ok |-> TRUE,
                entry |-> entry, pre |-> Tags(layers), calls |-> <<>>,
                prev |-> IF last.op = "entry_for" /\ last.ok
                            /\ last.entry = entry
                         THEN [op |-> "entry_for", full |-> {},
                               pre |-> last.pre]
                         ELSE NoPrev]
    /\ UNCHANGED <<texture_layers, call>>

Next ==
    \/ \E request \in Requests : EntryFor(request[1], request[2])
    \/ \E entry \in live : Remove(entry)

Spec == Init /\ [][Next]_vars

TypeOK ==
    /\ Len(layers) \in 1..MaxLayers
    /\ \A i \in 1..Len(layers) : layers[i].tag \in {"Empty", "Busy", "Full"}
    /\ texture_layers \in 1..MaxLayers
    /\ Cardinality(live) <= MaxLive

(* ---------------- removing an entry more than once ---------------- *)
\* remove(&entry) borrows the entry, so the caller can keep the handle and
\* remove it again.  Here `live` is the set of handles the caller has, the
\* ones already removed included.
MisuseRequests == {<<1050, 1050>>, <<SIZE, SIZE>>, <<3000, 1050>>}

RECURSIVE DefinedDeallocs(_, _)
\* Deallocating the allocations in turn never hands a Busy layer's allocator
\* a region it does not hold, which the allocator's interface leaves open.
DefinedDeallocs(ls, allocations) ==
    IF allocations = <<>>
    THEN TRUE
    ELSE LET a == Head(allocations)
         IN  /\ (a.kind = "Partial" /\ ls[a.layer + 1].tag = "Busy") =>
                    a.region \in ls[a.layer + 1].allocator.regions
             /\ DefinedDeallocs(Atlas_deallocate(ls, a), Tail(allocations))

DefinedRemove(entry) ==
    DefinedDeallocs(layers,
        IF entry.kind = "Contiguous" THEN <<entry.allocation>>
        ELSE [k \in 1..Len(entry.fragments) |-> entry.fragments[k].allocation])

\* A call remove(&entry) after which the caller drops the handle.
RemoveDropped(entry) == DefinedRemove(entry) /\ Remove(entry)

\* A call remove(&entry) after which the caller keeps the handle.
RemoveKept(entry) ==
    /\ DefinedRemove(entry)
    /\ layers' = Atlas_remove(layers, entry)
    /\ last' = [op |-> "remove", width |-> 0, height |-> 0, ok |-> TRUE,
                entry |-> entry, pre |-> Tags(layers), calls |-> <<>>,
                prev |-> NoPrev]
    /\ UNCHANGED <<texture_layers, live, call>>

NextMisuse ==
    \/ \E request \in MisuseRequests : EntryFor(request[1], request[2])
    \/ \E entry \in live : RemoveDropped(entry)
    \/ \E entry \in live : RemoveKept(entry)

SpecMisuse == Init /\ [][NextMisuse]_vars

(* ---------------- uploading images ---------------- *)
\* The image sizes: within a layer with and without row padding, a whole
\* layer, fragmented over layers, and one whose padded rows fill 2^32 bytes
\* before the last row of blocks.
ImageSizes ==
    {<<64, 1>>, <<63, 65>>, <<1050, 1050>>, <<SIZE, SIZE>>, <<3000, 1050>>,
     <<1050, 3000>>, <<3000, 3000>>, <<32768, 34816>>}

\* A call entry_for(width, height, ..) that returns the entry for an image
\* to upload, made while the atlas is within the bounds.
EntryForImage(width, height) ==
    /\ Len(layers) <= MaxLayers
    /\ Cardinality(live) < MaxLive
    /\ \E r \in {Atlas_entry_for(layers, texture_layers, width, height)} :
           /\ r.ok
           /\ layers' = r.layers
           /\ texture_layers' = r.texture
           /\ live' = live \cup {r.entry}
           /\ last' = [op |-> "entry_for", width |-> width,
                       height |-> height, ok |-> r.ok, entry |-> r.entry,
                       pre |-> <<>>, calls |-> r.calls, prev |-> NoPrev]
           /\ UNCHANGED call

\* A call upload(image_width, image_height, data, &entry, ..) for an entry
\* the caller holds, with the size the entry was requested for, in a build
\* with or without overflow checks.
Upload(entry) ==
    \E overflow_checks \in BOOLEAN :
        \E r \in {WgpuBackend_upload(Entry_size(entry)[1],
                                     Entry_size(entry)[2], entry,
                                     overflow_checks)} :
            /\ last' = [op |-> "upload", width |-> Entry_size(entry)[1],
                        height |-> Entry_size(entry)[2],
                        ok |-> ~r.panicked, entry |-> entry, pre |-> <<>>,
                        calls |-> r.copies, prev |-> NoPrev]
            /\ UNCHANGED <<layers, texture_layers, live, call>>

NextUpload ==
    \/ \E size \in ImageSizes : EntryForImage(size[1], size[2])
    \/ \E entry \in live : Upload(entry)

SpecUpload == Init /\ [][NextUpload]_vars

(* ---------------- the oversized path, loop by loop ---------------- *)
\* The requests that take the oversized path, and the ones made between
\* them.
OversizedRequests == {<<3000, 1050>>, <<3000, 3000>>, <<3000, 0>>}

PlainRequests == {<<1050, 1050>>}

\* entry_for(width, height, ..) enters the oversized path of allocate:
\* "let mut fragments = Vec::new(); let mut y = 0;".
BeginAllocate(width, height) ==
    /\ call.pc = "idle"
    /\ width > SIZE \/ height > SIZE
    /\ \E r \in {Atlas_allocate(layers, width, height)} :
           /\ Len(r.layers) <= MaxLayers
           /\ r.ok => Cardinality(live) < MaxLive
    /\ call' = [pc |-> "outer", width |-> width, height |-> height,
                x |-> 0, y |-> 0, block_height |-> 0, fragments |-> <<>>,
                ok |-> TRUE, current_size |-> Len(layers)]
    /\ UNCHANGED <<layers, texture_layers, live, last>>

\* "while y < height { let height = min(height - y, SIZE); let mut x = 0;"
OuterLoop ==
    /\ call.pc = "outer"
    /\ call' = IF call.y < call.height
               THEN [call EXCEPT !.pc = "inner", !.x = 0,
                        !.block_height = BlockExtent(call.height, call.y)]
               ELSE [call EXCEPT !.pc = "done"]
    /\ UNCHANGED <<layers, texture_layers, live, last>>

\* "while x < width { let width = min(width - x, SIZE);
\*  let allocation = self.allocate(width, height)?;
\*  if let Entry::Contiguous(allocation) = allocation { fragments.push(..) }
\*  x += width; } y += height;"
InnerLoop ==
    /\ call.pc = "inner"
    /\ IF call.x < call.width
       THEN \E r \in {Atlas_allocate(layers,
                                     BlockExtent(call.width, call.x),
                                     call.block_height)} :
                /\ layers' = r.layers
                /\ call' =
                       IF ~r.ok
                       THEN [call EXCEPT !.pc = "done", !.ok = FALSE]
                       ELSE [call EXCEPT
                                !.x = call.x + BlockExtent(call.width, call.x),
                                !.fragments =
                                    IF r.entry.kind = "Contiguous"
                                    THEN Append(call.fragments,
                                             Fragment(<<call.x, call.y>>,
                                                      r.entry.allocation))
                                    ELSE call.fragments]
       ELSE /\ call' = [call EXCEPT !.pc = "outer",
                           !.y = call.y + call.block_height]
            /\ UNCHANGED layers
    /\ UNCHANGED <<texture_layers, live, last>>

\* allocate returns Some(Entry::Fragmented { .. }) or None to entry_for, which
\* calls grow and returns.
ReturnAllocate ==
    /\ call.pc = "done"
    /\ \E entry \in {EntryFragmented(<<call.width, call.height>>,
                                     call.fragments)} :
           \E calls \in {GrowCalls(call.ok, layers,
                                   Len(layers) - call.current_size)} :
               /\ live' = IF call.ok THEN live \cup {entry} ELSE live
               /\ texture_layers' =
                      IF calls = <<>> THEN texture_layers
                      ELSE WgpuBackend_grow(texture_layers, calls[1].layers,
                                            calls[1].amount)
    /\ call' = NoFrame
    /\ UNCHANGED <<layers, last>>

\* The steps of an allocate in progress.
AllocateStep == OuterLoop \/ InnerLoop \/ ReturnAllocate

\* entry_for(width, height, ..) for a request that does not take the
\* oversized path, in one step and without the record of the call.
AllocatePlain(width, height) ==
    /\ call.pc = "idle"
    /\ \E r \in {Atlas_entry_for(layers, texture_layers, width, height)} :
           /\ Len(r.layers) <= MaxLayers
           /\ r.ok => Cardinality(live) < MaxLive
           /\ layers' = r.layers
           /\ texture_layers' = r.texture
           /\ live' = IF r.ok THEN live \cup {r.entry} ELSE live
    /\ UNCHANGED <<last, call>>

\* remove(&entry) of an entry the caller holds, without the record of the
\* call.
Release(entry) ==
    /\ call.pc = "idle"
    /\ layers' = Atlas_remove(layers, entry)
    /\ live' = live \ {entry}
    /\ UNCHANGED <<texture_layers, last, call>>

NextAllocate ==
    \/ \E request \in OversizedRequests :
           BeginAllocate(request[1], request[2])
    \/ OuterLoop
    \/ InnerLoop
    \/ ReturnAllocate
    \/ \E request \in PlainRequests :
           AllocatePlain(request[1], request[2])
    \/ \E entry \in live : Release(entry)

\* The atlas is used from one thread and every call runs to completion: a
\* call in progress takes its next step.
SpecAllocate == Init /\ [][NextAllocate]_vars /\ WF_vars(AllocateStep)

(* ======================= properties ======================= *)
IsEntryFor == last.op = "entry_for"

\* The most recent call was an entry_for that returned an Entry.
Returned == IsEntryFor /\ last.ok

\* Both extents are within one layer and not zero.
SubLayer(width, height) == width \in 1..SIZE /\ height \in 1..SIZE

\* C1: whenever entry_for returns an Entry, every layer index the Entry
\* references is smaller than the backend texture's layer count.
C1_StorageLargeEnough ==
    Returned =>
        \A a \in EntryAllocations(last.entry) :
            Allocation_layer(a) < texture_layers

\* An entry was returned that lies in a layer this very call appended.
C1_Witness ==
    /\ Returned
    /\ \E a \in EntryAllocations(last.entry) :
           /\ Allocation_layer(a) >= Len(last.pre)
           /\ Allocation_layer(a) < texture_layers

\* C2: an entry_for call that returns nothing leaves the layers exactly as
\* they were: same count, same tags, same regions in every Busy layer.
C2_FailureLeavesLayers ==
    [][(last'.op = "entry_for" /\ ~last'.ok) => layers' = layers]_vars

\* An entry_for returned nothing while a Busy and an Empty layer existed.
C2_Witness ==
    /\ IsEntryFor
    /\ ~last.ok
    /\ \E i \in 1..Len(layers) :
           layers[i].tag = "Busy" /\ layers[i].allocator.regions # {}
    /\ \E i \in 1..Len(layers) : layers[i].tag = "Empty"

\* C3: entry_for with 1 <= width <= SIZE and 1 <= height <= SIZE returns an
\* Entry; when it appends a layer, it appends one and the Entry is in it.
C3_SubLayerAlwaysFits ==
    (IsEntryFor /\ SubLayer(last.width, last.height)) =>
        /\ last.ok
        /\ last.entry.kind = "Contiguous"
        /\ Len(layers) \in {Len(last.pre), Len(last.pre) + 1}
        /\ Len(layers) = Len(last.pre) + 1 =>
               /\ Allocation_layer(last.entry.allocation) = Len(last.pre)
               /\ layers[Len(layers)].tag # "Empty"

\* A sub-layer request found every layer Busy or Full and got a new layer.
C3_Witness ==
    /\ Returned
    /\ SubLayer(last.width, last.height)
    /\ last.entry.allocation.kind = "Partial"
    /\ Len(layers) = Len(last.pre) + 1
    /\ \A i \in 1..Len(last.pre) : last.pre[i] # "Empty"
    /\ \E i \in 1..Len(last.pre) : last.pre[i] = "Busy"

\* C4: an entry_for that returns an Entry calls grow exactly once, with the
\* complete layer sequence and the number of layers the call added (also
\* when that is 0); an entry_for that returns nothing never calls it.
C4_GrowCalledOnce ==
    IsEntryFor =>
        IF last.ok
        THEN last.calls = <<[layers |-> layers,
                             amount |-> Len(layers) - Len(last.pre)]>>
        ELSE last.calls = <<>>

\* The callback was called with new_layers = 0 and several layers.
C4_Witness ==
    /\ Returned
    /\ Len(layers) >= 2
    /\ last.calls = <<[layers |-> layers, amount |-> 0]>>

\* A single existing layer can take the whole request: an Empty layer for a
\* full-size request, an Empty or Busy layer whose allocator has room for a
\* sub-layer request, none for an oversized request.
CanHold(layer, width, height) ==
    IF width = SIZE /\ height = SIZE
    THEN Layer_is_empty(layer)
    ELSE IF width > SIZE \/ height > SIZE
    THEN FALSE
    ELSE /\ layer.tag \in {"Empty", "Busy"}
         /\ Allocator_allocate(
                IF layer.tag = "Busy" THEN layer.allocator ELSE Allocator_new,
                width, height).ok

SomeLayerHolds(ls, width, height) ==
    \E i \in 1..Len(ls) : CanHold(ls[i], width, height)

\* This step is an entry_for(width, height) with non-zero extents that
\* returns an Entry.
ReturningStep ==
    /\ last'.op = "entry_for"
    /\ last'.ok
    /\ last'.width >= 1
    /\ last'.height >= 1

\* The number of layers the grow callback of this step observes.
ObservedNewLayers == last'.calls[1].amount

GrowthSignal ==
    IF SomeLayerHolds(layers, last'.width, last'.height)
    THEN Len(layers') = Len(layers) /\ ObservedNewLayers = 0
    ELSE Len(layers') = Len(layers) + 1 /\ ObservedNewLayers = 1

\* C5 as stated, for every request shape: when no existing layer can
\* hold the request exactly one layer is appended and grow observes 1, else
\* none is appended and grow observes 0.
C5_GrowthSignalAnyShape == [][ReturningStep => GrowthSignal]_vars

\* C5 (amended): the growth signal holds for requests with 1 <= width <=
\* SIZE and 1 <= height <= SIZE; for every request grow observes the number
\* of layers the call appended, which for an oversized request is any
\* number from 0 up.
C5_GrowthSignalSubLayer ==
    [][ReturningStep =>
          /\ ObservedNewLayers = Len(layers') - Len(layers)
          /\ ObservedNewLayers >= 0
          /\ SubLayer(last'.width, last'.height) => GrowthSignal]_vars

\* A request within one layer that none of several existing layers could
\* hold was given a new layer, and grow observed new_layers == 1.
C5_Witness ==
    /\ Returned
    /\ SubLayer(last.width, last.height)
    /\ last.calls = <<[layers |-> layers, amount |-> 1]>>
    /\ Len(layers) = Len(last.pre) + 1
    /\ Len(last.pre) >= 2
    /\ \E i \in 1..Len(last.pre) : last.pre[i] = "Full"

\* The most recent call removed the Contiguous entry (both extents <= SIZE)
\* that the call before it had just returned.
RoundTrip ==
    /\ last.op = "remove"
    /\ last.prev.op = "entry_for"
    /\ last.entry.kind = "Contiguous"

\* C6 as stated: after entry_for and remove of its Entry the layer tags
\* are the ones before the allocation.
C6_RoundTripRestoresTags == RoundTrip => Tags(layers) = last.prev.pre

\* C6 (amended): every layer that existed before the allocation has its
\* tag back; a layer the allocation appended is kept, as an Empty layer.
C6_RoundTripRestoresOldTags ==
    RoundTrip =>
        /\ Len(layers) \in {Len(last.prev.pre), Len(last.prev.pre) + 1}
        /\ \A i \in 1..Len(layers) :
               IF i <= Len(last.prev.pre)
               THEN layers[i].tag = last.prev.pre[i]
               ELSE layers[i].tag = "Empty"

\* A round trip through a layer that was Busy before and is Busy after.
C6_Witness ==
    /\ RoundTrip
    /\ last.entry.allocation.kind = "Partial"
    /\ Tags(layers) = last.prev.pre
    /\ layers[Allocation_layer(last.entry.allocation) + 1].tag = "Busy"

\* The most recent call is a SIZE x SIZE entry_for made right after a remove
\* that freed the Full allocation of layer i.
FullAfterFree(i) ==
    /\ IsEntryFor
    /\ last.width = SIZE
    /\ last.height = SIZE
    /\ last.prev.op = "remove"
    /\ i \in last.prev.full

\* C7 as stated: that entry_for returns Full{layer: i} and appends no
\* layer.
C7_ReusesFreedLayer ==
    \A i \in 0..(MaxLayers - 1) :
        FullAfterFree(i) =>
            /\ last.ok
            /\ last.entry = EntryContiguous(AllocationFull(i))
            /\ Len(layers) = Len(last.pre)

\* C7 (amended): that entry_for appends no layer and returns Full{layer: j}
\* for the lowest-index layer j that was Empty, so j <= i, and j = i when no
\* layer below i was Empty.
C7_ReusesLowestEmptyLayer ==
    \A i \in 0..(MaxLayers - 1) :
        FullAfterFree(i) =>
            /\ last.ok
            /\ Len(layers) = Len(last.pre)
            /\ \E j \in 0..i :
                   /\ last.entry = EntryContiguous(AllocationFull(j))
                   /\ last.pre[j + 1] = "Empty"
                   /\ \A k \in 0..(j - 1) : last.pre[k + 1] # "Empty"

\* The freed layer itself was reused, and it is not layer 0.
C7_Witness ==
    \E i \in 1..(MaxLayers - 1) :
        /\ FullAfterFree(i)
        /\ last.entry = EntryContiguous(AllocationFull(i))

\* The number of SIZE-bounded blocks an extent is cut into: ceil(a / SIZE).
Blocks(a) == (a + SIZE - 1) \div SIZE

\* The rectangle of the image a fragment stands for.
FragmentRect(fragment) ==
    [x |-> fragment.position[1], y |-> fragment.position[2],
     w |-> Allocation_size(fragment.allocation)[1],
     h |-> Allocation_size(fragment.allocation)[2]]

RECURSIVE FragmentArea(_)
FragmentArea(fragments) ==
    IF fragments = <<>>
    THEN 0
    ELSE FragmentRect(Head(fragments)).w * FragmentRect(Head(fragments)).h
         + FragmentArea(Tail(fragments))

\* C8: a returned Entry for width > SIZE or height > SIZE is Fragmented; its
\* ceil(width/SIZE) * ceil(height/SIZE) fragments are in row-major order at
\* multiples of SIZE, of size (min(SIZE, width - x), min(SIZE, height - y)),
\* and tile the width x height rectangle without gap or overlap.
C8_FragmentTiling ==
    (Returned /\ (last.width > SIZE \/ last.height > SIZE)) =>
        LET f == last.entry.fragments
            cols == Blocks(last.width)
            rows == Blocks(last.height)
        IN  /\ last.entry.kind = "Fragmented"
            /\ Len(f) = cols * rows
            /\ \A k \in 1..Len(f) :
                   LET x == ((k - 1) % cols) * SIZE
                       y == ((k - 1) \div cols) * SIZE
                   IN  /\ f[k].position = <<x, y>>
                       /\ Allocation_size(f[k].allocation) =
                              <<Min(SIZE, last.width - x),
                                Min(SIZE, last.height - y)>>
            /\ \A k \in 1..Len(f) :
                   /\ FragmentRect(f[k]).x + FragmentRect(f[k]).w <= last.width
                   /\ FragmentRect(f[k]).y + FragmentRect(f[k]).h <= last.height
            /\ \A k, m \in 1..Len(f) :
                   k # m => ~Overlaps(FragmentRect(f[k]), FragmentRect(f[m]))
            /\ FragmentArea(f) = last.width * last.height

\* 3000 x 3000 was cut into four fragments, the last one 952 x 952 at
\* (2048, 2048).
C8_Witness ==
    /\ Returned
    /\ last.width = 3000
    /\ last.height = 3000
    /\ Len(last.entry.fragments) = 4
    /\ last.entry.fragments[2].position = <<SIZE, 0>>
    /\ Allocation_size(last.entry.fragments[2].allocation) = <<952, SIZE>>
    /\ last.entry.fragments[4].position = <<SIZE, SIZE>>
    /\ Allocation_size(last.entry.fragments[4].allocation) = <<952, 952>>

\* C9: Entry::size() of the Entry entry_for(width, height) returns is
\* (width, height).
C9_EntrySizeIsRequest ==
    Returned => Entry_size(last.entry) = <<last.width, last.height>>

\* A Partial allocation of a strip that is wider than high.
C9_Witness ==
    /\ Returned
    /\ last.entry.kind = "Contiguous"
    /\ last.entry.allocation.kind = "Partial"
    /\ last.width # last.height
    /\ Entry_size(last.entry) = <<last.width, last.height>>

\* C10: layer_count() is at least 1 and no call lowers it; remove leaves it
\* as it is, every layer keeps its slot, and a layer whose Full allocation
\* was removed is Empty.
C10_LayerCountNeverShrinks ==
    /\ Atlas_layer_count(layers) >= 1
    /\ Atlas_layer_count(layers) >= Len(last.pre)
    /\ last.op = "remove" =>
           /\ Atlas_layer_count(layers) = Len(last.pre)
           /\ \A i \in 1..Len(layers) :
                  layers[i].tag = last.pre[i] \/ layers[i].tag = "Empty"
           /\ \A i \in FullLayers(last.entry) : layers[i + 1].tag = "Empty"

\* The last layer's Full allocation was removed; its slot is still there.
C10_Witness ==
    /\ last.op = "remove"
    /\ Atlas_layer_count(layers) >= 2
    /\ Atlas_layer_count(layers) - 1 \in FullLayers(last.entry)
    /\ layers[Len(layers)].tag = "Empty"

\* The allocations inside the entries the caller holds.
LiveAllocations == UNION {EntryAllocations(entry) : entry \in live}

\* C11: every layer index referenced by a live Allocation is smaller than
\* layer_count().
C11_LiveLayerIndicesValid ==
    \A a \in LiveAllocations :
        Allocation_layer(a) < Atlas_layer_count(layers)

\* Live allocations reference the last of several layers, in a Partial and
\* in a Full allocation.
C11_Witness ==
    /\ Atlas_layer_count(layers) >= 3
    /\ \E a \in LiveAllocations :
           /\ a.kind = "Partial"
           /\ Allocation_layer(a) = Atlas_layer_count(layers) - 1
    /\ \E a \in LiveAllocations : a.kind = "Full" /\ Allocation_layer(a) >= 1

\* The Partial allocations of an entry, and of the live entries, in the
\* layer with index i.
PartialsIn(entry, i) ==
    {a \in EntryAllocations(entry) :
         a.kind = "Partial" /\ Allocation_layer(a) = i}

LivePartialsIn(i) ==
    {a \in LiveAllocations : a.kind = "Partial" /\ Allocation_layer(a) = i}

\* C12: after a remove, a layer the removed entry had a Partial allocation
\* in is Empty, without allocator state, when no live Partial allocation
\* is left in it and Busy while one is left; and a sub-layer allocation into
\* an Empty layer starts from a fresh allocator.
C12_EmptyDemotion ==
    /\ last.op = "remove" =>
           \A i \in 0..(Len(layers) - 1) :
               PartialsIn(last.entry, i) # {} =>
                   IF LivePartialsIn(i) = {}
                   THEN layers[i + 1] = LayerEmpty
                   ELSE layers[i + 1].tag = "Busy"
    /\ Returned =>
           \A i \in 0..(Len(last.pre) - 1) :
               (last.pre[i + 1] = "Empty" /\ PartialsIn(last.entry, i) # {}) =>
                   layers[i + 1] =
                       LayerBusy([regions |->
                           {a.region : a \in PartialsIn(last.entry, i)}])

\* One remove emptied a layer of its last Partial allocation and left
\* another layer Busy, where a Partial allocation of another entry is live.
C12_Witness ==
    /\ last.op = "remove"
    /\ \E i, j \in 0..(Len(layers) - 1) :
           /\ PartialsIn(last.entry, i) # {}
           /\ last.pre[i + 1] = "Busy"
           /\ layers[i + 1] = LayerEmpty
           /\ PartialsIn(last.entry, j) # {}
           /\ LivePartialsIn(j) # {}
           /\ layers[j + 1].tag = "Busy"

\* This step is an entry_for that returns an Entry for a request within one
\* layer that is not a whole layer.
SubLayerStep ==
    /\ ReturningStep
    /\ SubLayer(last'.width, last'.height)
    /\ ~(last'.width = SIZE /\ last'.height = SIZE)

\* The indices of the layers that can take a width x height region.
Holders(ls, width, height) ==
    {i \in 0..(Len(ls) - 1) : CanHold(ls[i + 1], width, height)}

\* The step leaves every layer but the one with index i as it was.
OnlyLayerChanged(i) ==
    \A j \in 0..(Len(layers) - 1) : j # i => layers'[j + 1] = layers[j + 1]

\* C13: a successful sub-layer entry_for returns a Partial allocation in the
\* lowest-index Empty or Busy layer whose allocator can satisfy the request,
\* and a new layer is appended only when no existing layer can.
C13_AscendingIndexPreference ==
    [][SubLayerStep =>
        LET holders == Holders(layers, last'.width, last'.height)
            entry == last'.entry
        IN  /\ entry.kind = "Contiguous"
            /\ entry.allocation.kind = "Partial"
            /\ IF holders # {}
               THEN /\ \A j \in holders : Allocation_layer(entry.allocation) <= j
                    /\ Allocation_layer(entry.allocation) \in holders
                    /\ Len(layers') = Len(layers)
               ELSE /\ Allocation_layer(entry.allocation) = Len(layers)
                    /\ Len(layers') = Len(layers) + 1
            /\ OnlyLayerChanged(Allocation_layer(entry.allocation))]_vars

\* A sub-layer request passed over a Busy layer that could not take it and
\* landed in a later Busy layer, with no layer appended.
C13_Witness ==
    /\ Returned
    /\ SubLayer(last.width, last.height)
    /\ ~(last.width = SIZE /\ last.height = SIZE)
    /\ last.entry.kind = "Contiguous"
    /\ Allocation_layer(last.entry.allocation) >= 1
    /\ last.pre[1] = "Busy"
    /\ Len(last.pre) = Len(layers)
    /\ last.pre[Allocation_layer(last.entry.allocation) + 1] = "Busy"

\* A layer either keeps its tag or makes one of the four listed changes.
AllowedChange(before, after) ==
    \/ before = after
    \/ <<before, after>> \in {<<"Empty", "Busy">>, <<"Empty", "Full">>,
                              <<"Busy", "Empty">>, <<"Full", "Empty">>}

AllowedChanges(before, after) ==
    /\ Len(after) >= Len(before)
    /\ \A i \in 1..Len(before) : AllowedChange(before[i].tag, after[i].tag)

\* C14: with each entry removed at most once, the tag of a layer changes
\* only Empty->Busy, Empty->Full, Busy->Empty or Full->Empty, across every
\* call and across every single deallocate of a live allocation; never
\* Busy->Full or Full->Busy.
C14_LayerTransitions ==
    [][/\ AllowedChanges(layers, layers')
       /\ \A a \in LiveAllocations :
              AllowedChanges(layers, Atlas_deallocate(layers, a))]_vars

\* One remove took a layer from Full to Empty and another from Busy to Empty,
\* after calls that had taken them from Empty to Full and to Busy.
C14_Witness ==
    /\ last.op = "remove"
    /\ \E i, j \in 1..Len(last.pre) :
           /\ last.pre[i] = "Full" /\ layers[i].tag = "Empty"
           /\ last.pre[j] = "Busy" /\ layers[j].tag = "Empty"
    /\ \E k \in 1..Len(last.pre) : last.pre[k] = "Busy" /\ layers[k].tag = "Busy"

\* This step is an entry_for(SIZE, SIZE).
FullSizeStep ==
    /\ last'.op = "entry_for"
    /\ last'.width = SIZE
    /\ last'.height = SIZE

\* C16: entry_for(SIZE, SIZE) always succeeds.  With an Empty layer it
\* returns Contiguous(Full) for the lowest-index Empty layer, which becomes
\* Full while the layer count and all other layers stay as they were;
\* otherwise it appends exactly one Full layer and returns its index, the
\* previous layer count.  A Busy layer is never chosen.
C16_FullSizeRequest ==
    [][FullSizeStep =>
        LET empty_layers ==
                {i \in 0..(Len(layers) - 1) : layers[i + 1].tag = "Empty"}
            entry == last'.entry
        IN  /\ last'.ok
            /\ entry.kind = "Contiguous"
            /\ entry.allocation.kind = "Full"
            /\ IF empty_layers # {}
               THEN /\ Allocation_layer(entry.allocation) \in empty_layers
                    /\ \A j \in empty_layers :
                           Allocation_layer(entry.allocation) <= j
                    /\ layers' =
                           [layers EXCEPT
                               ![Allocation_layer(entry.allocation) + 1] =
                                   LayerFull]
               ELSE /\ Allocation_layer(entry.allocation) = Len(layers)
                    /\ layers' = Append(layers, LayerFull)]_vars

\* A full-size request passed over a Busy layer and took the first of two
\* Empty layers behind it.
C16_Witness ==
    /\ Returned
    /\ last.width = SIZE
    /\ last.height = SIZE
    /\ last.pre[1] = "Busy"
    /\ Len(last.pre) >= 3
    /\ last.pre[2] = "Empty"
    /\ last.pre[3] = "Empty"
    /\ last.entry = EntryContiguous(AllocationFull(1))
    /\ layers[1].tag = "Busy"

\* The live allocations of one kind in the layer with index i, each named
\* by the entry that holds it and its place in that entry.
LiveRefs(i, kind) ==
    UNION {
        IF entry.kind = "Contiguous"
        THEN IF entry.allocation.kind = kind
                /\ Allocation_layer(entry.allocation) = i
             THEN {<<entry, 0>>} ELSE {}
        ELSE {<<entry, k>> : k \in
                 {n \in 1..Len(entry.fragments) :
                      /\ entry.fragments[n].allocation.kind = kind
                      /\ Allocation_layer(entry.fragments[n].allocation) = i}}
        : entry \in live}

\* C19: with each entry removed at most once, a layer is Full iff exactly
\* one live Full allocation and no live Partial allocation references it,
\* Busy iff at least one live Partial and no live Full allocation references
\* it, and Empty iff no live allocation references it.
C19_TagsAgreeWithLive ==
    \A i \in 0..(Len(layers) - 1) :
        LET full == Cardinality(LiveRefs(i, "Full"))
            partial == Cardinality(LiveRefs(i, "Partial"))
            tag == layers[i + 1].tag
        IN  /\ tag = "Full" <=> (full = 1 /\ partial = 0)
            /\ tag = "Busy" <=> (partial >= 1 /\ full = 0)
            /\ tag = "Empty" <=> (full = 0 /\ partial = 0)

\* A Full layer, an Empty layer and a Busy layer are there at once, after a
\* remove, with two entries live.
C19_Witness ==
    /\ Cardinality(live) = 2
    /\ \E i, j, k \in 0..(Len(layers) - 1) :
           /\ layers[i + 1].tag = "Full" /\ LiveRefs(i, "Full") # {}
           /\ layers[j + 1].tag = "Busy" /\ LiveRefs(j, "Partial") # {}
           /\ layers[k + 1].tag = "Empty"
           /\ k >= 1

\* C17: the grow call an entry_for makes copies every layer that holds an
\* allocation live before the call to the same index of the new texture,
\* copies only layers the old texture has, leaves a texture of layers.len()
\* layers, and leaves the texture alone when amount is 0.
C17_GrowPreservesResidentData ==
    [][(last'.op = "entry_for" /\ last'.ok) =>
        LET grow_call == last'.calls[1]
            copies == WgpuBackend_grow_copies(grow_call.layers, grow_call.amount)
        IN  /\ Len(last'.calls) = 1
            /\ grow_call.layers = layers'
            /\ IF grow_call.amount = 0
               THEN texture_layers' = texture_layers /\ copies = {}
               ELSE /\ \A a \in LiveAllocations : Allocation_layer(a) \in copies
                    /\ \A i \in copies : i < texture_layers
                    /\ texture_layers' = Len(grow_call.layers)]_vars

\* A grow call with amount >= 1 copied a layer behind the first one, in
\* which an entry returned by an earlier call still holds an allocation.
C17_Witness ==
    /\ Returned
    /\ last.calls[1].amount >= 1
    /\ \E entry \in live \ {last.entry} :
           \E a \in EntryAllocations(entry) :
               /\ Allocation_layer(a) >= 1
               /\ Allocation_layer(a) \in
                      WgpuBackend_grow_copies(last.calls[1].layers,
                                              last.calls[1].amount)

\* The parts of the image an entry places: the whole image at (0, 0) for a
\* Contiguous entry, one part per fragment for a Fragmented one.
ImageParts(entry) ==
    IF entry.kind = "Contiguous"
    THEN {Fragment(<<0, 0>>, entry.allocation)}
    ELSE {entry.fragments[k] : k \in 1..Len(entry.fragments)}

\* The corner pixels of a part of the image.
CornerPixels(part) ==
    {<<part.position[1] + dx, part.position[2] + dy>> :
        dx \in {0, Allocation_size(part.allocation)[1] - 1},
        dy \in {0, Allocation_size(part.allocation)[2] - 1}}

\* The copy command reads the staging data of the image pixel (px, py), which
\* upload has put at row py, column px of rows padded_width apart.
CopyReads(copy, px, py, padded_width) ==
    LET d == py * padded_width + px - copy.offset
    IN  /\ d >= 0
        /\ (d \div copy.bytes_per_row) < copy.height
        /\ (d % copy.bytes_per_row) < copy.width

\* Where the copy command writes the image pixel (px, py) it reads.
CopyTarget(copy, px, py, padded_width) ==
    LET d == py * padded_width + px - copy.offset
    IN  <<copy.x + (d % copy.bytes_per_row),
          copy.y + (d \div copy.bytes_per_row),
          copy.z>>

\* The copy commands of the upload place the pixel (px, py) of the part
\* exactly once, at the part's allocation plus the pixel's place in the
\* part.
PlacedOnce(copies, part, px, py, padded_width) ==
    LET reading == {k \in 1..Len(copies) :
                        CopyReads(copies[k], px, py, padded_width)}
    IN  /\ Cardinality(reading) = 1
        /\ \A k \in reading :
               CopyTarget(copies[k], px, py, padded_width) =
                   <<Allocation_position(part.allocation)[1]
                         + (px - part.position[1]),
                     Allocation_position(part.allocation)[2]
                         + (py - part.position[2]),
                     Allocation_layer(part.allocation)>>

UploadPlacesCorners ==
    /\ last.ok
    /\ \A part \in ImageParts(last.entry) :
           \A pixel \in CornerPixels(part) :
               PlacedOnce(last.calls, part, pixel[1], pixel[2],
                          PaddedWidth(last.width))

\* C18: upload places every pixel of the image exactly once, at the
\* position of the allocation of the part that covers it plus the pixel's
\* place in that part, on the allocation's layer, reading it where the
\* padded staging buffer holds it.
C18_UploadPlacesEveryPixel == last.op = "upload" => UploadPlacesCorners

\* The same for the images whose padded staging data stays below 2^32
\* bytes, where no offset wraps.
C18_UploadBelowU32 ==
    (last.op = "upload" /\ last.height * PaddedWidth(last.width) < U32Pixels)
        => UploadPlacesCorners

\* A fragmented image with padded rows has been uploaded, one fragment into
\* a region away from the corner of its layer.
C18_PaddedFragmentedUpload ==
    /\ last.op = "upload"
    /\ last.ok
    /\ last.entry.kind = "Fragmented"
    /\ Padding(last.width) > 0
    /\ Len(last.calls) = 4
    /\ \E k \in 1..Len(last.calls) :
           /\ last.calls[k].offset > 0
           /\ last.calls[k].x > 0

\* The 32768 x 34816 image has been uploaded by a build without overflow
\* checks: the copy for the fragment at (0, 32768) has the staging offset of
\* the copy for the fragment at (0, 0).
C18_FailingUpload ==
    /\ last.op = "upload"
    /\ last.ok
    /\ last.width = 32768
    /\ last.height = 34816
    /\ \E j, k \in 1..Len(last.calls) :
           /\ last.entry.fragments[j].position = <<0, 0>>
           /\ last.entry.fragments[k].position = <<0, 32768>>
           /\ last.calls[j].offset = last.calls[k].offset

\* C15: deallocating a Partial allocation whose layer is Empty or Full
\* changes nothing, for every such allocation the caller has a handle to,
\* and a remove of a Contiguous entry of that kind leaves the layer count,
\* every layer and the texture as they were.
C15_StalePartialIsNoOp ==
    [][/\ \A a \in LiveAllocations :
              (a.kind = "Partial" /\ layers[a.layer + 1].tag # "Busy") =>
                  Atlas_deallocate(layers, a) = layers
       /\ (/\ last'.op = "remove"
           /\ last'.entry.kind = "Contiguous"
           /\ last'.entry.allocation.kind = "Partial"
           /\ layers[last'.entry.allocation.layer + 1].tag # "Busy")
          => /\ layers' = layers
             /\ texture_layers' = texture_layers]_vars

\* A Partial allocation removed before has been removed again after its
\* layer had become Full.
C15_Witness ==
    /\ last.op = "remove"
    /\ last.entry.kind = "Contiguous"
    /\ last.entry.allocation.kind = "Partial"
    /\ last.pre[last.entry.allocation.layer + 1] = "Full"
    /\ Tags(layers) = last.pre

\* This step is an iteration of the inner loop: it allocates one block.
BlockStep == call.pc = "inner" /\ call.x < call.width /\ call' # call

\* This step leaves the inner loop and moves on to the next row of blocks.
RowStep == call.pc = "inner" /\ ~(call.x < call.width) /\ call' # call

\* What holds of every step of the oversized path.
OversizedStep ==
    /\ BlockStep =>
           /\ BlockExtent(call.width, call.x) \in 1..SIZE
           /\ call.block_height \in 1..SIZE
           /\ call'.ok
           /\ call'.pc = "inner"
           /\ Len(call'.fragments) = Len(call.fragments) + 1
           /\ call'.fragments[Len(call'.fragments)].position =
                  <<call.x, call.y>>
           /\ call'.x > call.x
           /\ call'.x <= call.width
    /\ RowStep =>
           /\ call.x = call.width
           /\ call'.y > call.y
           /\ call'.y <= call.height

\* C20: Atlas::allocate terminates.  In the oversized path every block has
\* both extents in 1..SIZE, so the recursive call does not take the oversized
\* path itself and returns a Contiguous entry, which is pushed as a
\* fragment; x and y strictly increase and never pass width and height; and
\* a call in progress returns.
C20_OversizedPathTerminates ==
    /\ [][OversizedStep]_vars
    /\ (call.pc # "idle" ~> call.pc = "idle")

\* A 3000 x 3000 request has gone through two rows of two blocks and is
\* about to return its four fragments.
C20_Witness ==
    /\ call.pc = "done"
    /\ call.ok
    /\ call.width = 3000
    /\ call.height = 3000
    /\ call.y = call.height
    /\ Len(call.fragments) = 4

====
